---- MODULE Spec2Model ----
(***************************************************************************)
(* HubSpot deals ETL: the HTTP client wrapper (HubSpotAPIService), the     *)
(* paginated fetch loops (get_all_deals, extract_deals) and the record     *)
(* transformer (transform_deal).                                           *)
(*                                                                         *)
(* Time is counted in ticks of 50 ms: min_request_interval (0.1 s) is 2    *)
(* ticks and one second is 10 * min_request_interval ticks.                *)
(***************************************************************************)
EXTENDS Integers, Sequences, FiniteSets, TLC

(***************************************************************************)
(* Bounds of the model.                                                    *)
(***************************************************************************)
\* page requests one pagination run may issue
MaxPages == 2
\* records the API puts on one page
MaxPageLen == 2
\* failing answers (non-2xx, timeout, connection error) the server gives
\* during one extract_deals / get_all_deals run
MaxRunFaults == 1
\* failing answers the server gives to the direct _make_request driver
MaxRequestFaults == 5
\* _make_request calls the direct driver issues
MaxCalls == 2
\* ticks of idle time the direct driver lets pass between calls
MaxIdle == 3
\* clocks saturate at this many ticks ("at least that long ago")
TimeCap == 40
\* times one raw record occurs on the page handed to the row loop
MaxCopies == 2
\* rows one pipeline run loads
MaxBatchLen == 2
\* pipeline runs
MaxRuns == 2

(***************************************************************************)
(* Program constants.                                                      *)
(***************************************************************************)
\* HubSpotAPIService.__init__: max_retries default
max_retries == 3
\* HubSpotAPIService.__init__: self.min_request_interval = 0.1 (2 ticks)
min_request_interval == 2
\* Retry(backoff_factor=1)
backoff_factor == 1
\* get_deals: page size ceiling
MaxLimit == 100
\* a force list that also names the authentication failures
ForcelistWithAuth == {401, 403, 429, 500, 502, 503, 504}

\* Retry(status_forcelist=[429, 500, 502, 503, 504])
status_forcelist == {429, 500, 502, 503, 504}

Seconds(s) == s * 10 * min_request_interval

Last(seq) == seq[Len(seq)]

\* a duration, cut at the saturation point of the clocks
Sat(d) == IF d > TimeCap THEN TimeCap ELSE d

(***************************************************************************)
(* Python values.                                                          *)
(***************************************************************************)
None == [t |-> "none"]
StrV(chars) == [t |-> "str", v |-> chars]
IntV(n) == [t |-> "int", v |-> n]

\* Python truthiness of None / str / int
Truthy(x) ==
    CASE x.t = "none" -> FALSE
      [] x.t = "str"  -> x.v # <<>>
      [] x.t = "int"  -> x.v # 0
      [] OTHER        -> TRUE

Digits == {"0", "1", "2", "3", "4", "5", "6", "7", "8", "9"}

DigitValue(c) ==
    CASE c = "0" -> 0 [] c = "1" -> 1 [] c = "2" -> 2 [] c = "3" -> 3
      [] c = "4" -> 4 [] c = "5" -> 5 [] c = "6" -> 6 [] c = "7" -> 7
      [] c = "8" -> 8 [] c = "9" -> 9 [] OTHER -> 0

IsIntLiteral(chars) ==
    /\ chars # <<>>
    /\ \A i \in 1..Len(chars) : chars[i] \in Digits

RECURSIVE DecimalValue(_)
DecimalValue(chars) ==
    IF chars = <<>> THEN 0
    ELSE 10 * DecimalValue(SubSeq(chars, 1, Len(chars) - 1))
         + DigitValue(chars[Len(chars)])

\* int(x): an int is returned as is, a string is parsed, anything else (and a
\* string that is no integer literal) raises
PyIntRaises(x) ==
    CASE x.t = "int" -> FALSE
      [] x.t = "str" -> ~IsIntLiteral(x.v)
      [] OTHER       -> TRUE

PyInt(x) == IF x.t = "int" THEN x.v ELSE DecimalValue(x.v)

\* dict.get(key, default) on a mapping given as a function
DictGet(d, k, default) == IF k \in DOMAIN d THEN d[k] ELSE default

\* {}
EmptyDict == <<>>

\* a float: kind "finite" is sign * num / 10 ^ scale with no trailing zero in
\* the fraction; kinds "nan" and "inf" are the IEEE specials. The rounding of
\* a decimal to the nearest double is left out.
FloatV(kind, sign, num, scale) ==
    [t |-> "float", kind |-> kind, sign |-> sign, num |-> num, scale |-> scale]

RECURSIVE Normalized(_, _, _)
Normalized(sign, num, scale) ==
    IF num = 0 THEN FloatV("finite", 1, 0, 0)
    ELSE IF scale > 0 /\ num % 10 = 0
         THEN Normalized(sign, num \div 10, scale - 1)
         ELSE FloatV("finite", sign, num, scale)

\* float(str): a leading sign, then "nan", "inf", "infinity" or a decimal with
\* at most one point and at least one digit. (Surrounding blanks, exponents,
\* digit separators and upper case, which float() accepts as well, occur in
\* no string of this model.)
Unsigned(chars) ==
    IF chars # <<>> /\ chars[1] \in {"-", "+"} THEN Tail(chars) ELSE chars

SignOf(chars) == IF chars # <<>> /\ chars[1] = "-" THEN -1 ELSE 1

SpecialFloats ==
    {<<"n", "a", "n">>, <<"i", "n", "f">>,
     <<"i", "n", "f", "i", "n", "i", "t", "y">>}

IsPoint(c) == c = "."

IsDigit(c) == c \in Digits

IsDecimalLiteral(chars) ==
    /\ \A i \in 1..Len(chars) : IsDigit(chars[i]) \/ IsPoint(chars[i])
    /\ Len(SelectSeq(chars, IsPoint)) <= 1
    /\ Len(SelectSeq(chars, IsDigit)) >= 1

\* digits after the point
FractionLen(chars) ==
    IF \E i \in 1..Len(chars) : IsPoint(chars[i])
    THEN Len(chars) - (CHOOSE i \in 1..Len(chars) : IsPoint(chars[i]))
    ELSE 0

\* float(x) raises ValueError / TypeError
PyFloatRaises(x) ==
    CASE x.t = "int" -> FALSE
      [] x.t = "str" -> /\ ~IsDecimalLiteral(Unsigned(x.v))
                        /\ Unsigned(x.v) \notin SpecialFloats
      [] OTHER       -> TRUE

PyFloat(x) ==
    CASE x.t = "int" -> Normalized(IF x.v < 0 THEN -1 ELSE 1,
                                   IF x.v < 0 THEN -x.v ELSE x.v, 0)
      [] x.t = "str" /\ Unsigned(x.v) = <<"n", "a", "n">> ->
            FloatV("nan", 1, 0, 0)
      [] x.t = "str" /\ Unsigned(x.v) \in SpecialFloats
                     /\ Unsigned(x.v) # <<"n", "a", "n">> ->
            FloatV("inf", SignOf(x.v), 0, 0)
      [] OTHER ->
            Normalized(SignOf(x.v),
                       DecimalValue(SelectSeq(Unsigned(x.v), IsDigit)),
                       FractionLen(Unsigned(x.v)))

(***************************************************************************)
(* The API's data: raw records, pages and the answers of the server.       *)
(***************************************************************************)
\* a parameter left out of the query string
Absent == [t |-> "absent"]

\* the i-th raw record the API serves; count properties are numeric strings
Deal(i) ==
    [id |-> StrV(<<i>>),
     properties |-> [num_associated_contacts |-> StrV(<<"3">>)]]

\* next-cursor strings the API may put in paging.next.after
Cursors == {StrV(<<>>), StrV(<<"c">>)}

\* the pages the API may serve after `n` records were served: next = None
\* stands for a response without paging.next
Pages(n) ==
    {[results |-> [i \in 1..len |-> Deal(n + i)], next |-> nx] :
        len \in 0..MaxPageLen, nx \in {None} \cup Cursors}

NoPage == [results |-> <<>>, next |-> None]

BodyKinds == {"empty", "message", "no_message", "not_object", "not_json"}

RetryAfterValues == {None, StrV(<<"2">>), StrV(<<"a", "b", "c">>)}

Answer(net, status, ra, body, pg) ==
    [net |-> net, status |-> status, retry_after |-> ra, body |-> body,
     page |-> pg]

NoAnswer == Answer("none", 0, None, "empty", NoPage)

SuccessAnswers(c, n) ==
    IF c = "get_deals"
    THEN {Answer("ok", 200, None, "json", p) : p \in Pages(n)}
    ELSE {Answer("ok", 200, None, "json", NoPage)}

FaultAnswers ==
    {Answer("ok", s, None, "empty", NoPage) : s \in {401, 403, 500}}
    \cup {Answer("ok", 404, None, b, NoPage) : b \in BodyKinds}
    \cup {Answer("ok", 501, None, "message", NoPage)}
    \cup {Answer("ok", 429, ra, "empty", NoPage) : ra \in RetryAfterValues}
    \cup {Answer(n, 0, None, "empty", NoPage) : n \in {"timeout", "connection"}}

\* the failing answers of the API a pagination run is set against: one of
\* each kind the paging loops can tell apart (an error raised at once, an
\* exception of another type, a retried status, a retried network error, a
\* 429 with a Retry-After wait)
RunFaultAnswers ==
    {Answer("ok", 401, None, "empty", NoPage),
     Answer("ok", 404, None, "not_object", NoPage),
     Answer("ok", 500, None, "empty", NoPage),
     Answer("ok", 429, StrV(<<"2">>), "empty", NoPage),
     Answer("timeout", 0, None, "empty", NoPage)}

IsFault(ans) == ans.net # "ok" \/ ans.status >= 400

\* a mapping without the keys whose value is Absent
MakeDict(full) ==
    [k \in {key \in DOMAIN full : full[key] # Absent} |-> full[k]]

\* values a count property may carry
CountValues ==
    {Absent, None, StrV(<<>>), StrV(<<"3">>), StrV(<<"a", "b", "c">>),
     StrV(<<"3", ".", "0">>)}

\* values deal_currency_code may carry
CurrencyValues == {Absent, None, StrV(<<>>), StrV(<<"E", "U", "R">>)}

\* values a numeric property may carry
NumericValues ==
    {Absent, None, StrV(<<>>), StrV(<<"1", "0", "0", ".", "5", "0">>),
     StrV(<<"-", "2", ".", "5">>), StrV(<<"a", "b", "c">>),
     StrV(<<"n", "a", "n">>)}

\* the envelope's id
IdValues == {Absent, StrV(<<"4", "2">>)}

RawDeal(id, contacts, companies, currency, amount, forecast, probability) ==
    MakeDict([id |-> id,
              properties |->
                MakeDict([num_associated_contacts |-> contacts,
                          num_associated_companies |-> companies,
                          deal_currency_code |-> currency,
                          amount |-> amount,
                          hs_forecast_amount |-> forecast,
                          hs_forecast_probability |-> probability])])

\* raw records of any shape: a well-formed record varied in its id, in its
\* count properties, in its currency code or in its numeric properties, and
\* a record without a property mapping
RawDeals ==
    {RawDeal(id, StrV(<<"3">>), StrV(<<"3">>), StrV(<<"E", "U", "R">>),
             StrV(<<"1", "0", "0", ".", "5", "0">>), Absent, None) :
        id \in IdValues}
    \cup {RawDeal(StrV(<<"4", "2">>), a, b, Absent, None, Absent, Absent) :
            a \in CountValues, b \in CountValues}
    \cup {RawDeal(StrV(<<"4", "2">>), StrV(<<"3">>), Absent, c, None, Absent,
                  Absent) : c \in CurrencyValues}
    \cup {RawDeal(StrV(<<"4", "2">>), Absent, StrV(<<"3">>), Absent, m, f, q) :
            m \in NumericValues, f \in NumericValues, q \in NumericValues}
    \cup {MakeDict([id |-> StrV(<<"4", "2">>), properties |-> Absent])}

VARIABLES
    \* HubSpotAPIService instance and the wall clock
    \* now: time since the frame started; since_request: time.time() -
    \* self.last_request_time; since_wire: time since the latest request went on
    \* the wire (wire_sent: there was one); wire_gap: time between the two latest
    \* requests on the wire, -1 before the second
    \* start_gap: time between the starts (the _rate_limit stamps) of the two
    \* latest _make_request calls, -1 before the second
    service, session_open, now, since_request, wire_sent, since_wire, wire_gap,
    start_gap,
    \* one _make_request call (params: its query parameters) and the session's
    \* retry adapter
    rpc, caller, params, retry_total, retry_history, answers, backoff_slept, resp, exc,
    \* the server: the failing answers it may give and how many of them it
    \* still gives, the records it has served
    faults, fault_budget, served,
    \* extract_deals (generator) / get_all_deals frame
    pc, tenant_id, scan_id, batch_size, checkpoint_interval, after_cursor, page, total_deals, data,
    idx, yielded, fetched, page_reqs, extracted_at, checkpoints, err, all_deals,
    \* the direct driver of _make_request
    calls, idle,
    \* the pipeline: the rows of the destination table, every row loaded so
    \* far in load order, the runs done
    destination, loaded, runs,
    \* run_pipeline: the two environment settings, what pipeline.run gave
    \* back and the value run_pipeline returned
    access_token, database_url, load_info, result

clientVars == <<service, session_open, now, since_request, wire_sent,
                since_wire, wire_gap, start_gap>>
requestVars == <<rpc, caller, params, retry_total, retry_history, answers,
                 backoff_slept, resp, exc>>
serverVars == <<faults, fault_budget, served>>
frameVars == <<pc, tenant_id, scan_id, batch_size, checkpoint_interval, after_cursor, page,
               total_deals, data, idx, yielded, fetched, page_reqs,
               extracted_at, checkpoints, err, all_deals>>
pipelineVars == <<access_token, database_url, load_info, result>>
driverVars == <<calls, idle, destination, loaded, runs, pipelineVars>>
vars == <<clientVars, requestVars, serverVars, frameVars, driverVars>>

(***************************************************************************)
(* HubSpotAPIService._make_request over the session of _create_session.    *)
(***************************************************************************)
\* urllib3 Retry.get_backoff_time: nothing before the second consecutive
\* retry, then backoff_factor * 2 ** (n - 1) seconds
BackoffTime(n) == IF n <= 1 THEN 0 ELSE Seconds(backoff_factor * 2 ^ (n - 1))

\* Retry.is_retry / _is_read_error / _is_connection_error for a GET
AdapterRetries(ans) == ans.net # "ok" \/ ans.status \in status_forcelist

\* a budget that counts attempts instead of retries
IsExhaustedAtZero(total) == total <= 0

\* Retry.is_exhausted after increment()
IsExhausted(total) == total < 0

\* entering _make_request(method, url, params=p) from caller c
CallMakeRequest(c, p) ==
    /\ rpc' = "rate_limit"
    /\ caller' = c
    /\ params' = p
    /\ answers' = <<>>
    /\ backoff_slept' = 0
    /\ resp' = NoAnswer
    /\ exc' = "none"
    /\ UNCHANGED <<retry_total, retry_history>>

\* time.sleep(d) with the last request stamped `stamp` ticks ago afterwards
Sleep(d, stamp) ==
    /\ now' = Sat(now + d)
    /\ since_wire' = Sat(since_wire + d)
    /\ since_request' = stamp

\* a limiter that never sleeps
NoRateLimitSleep(time_since_last_request) == 0

\* _rate_limit(): the remainder of the interval still to sleep
RateLimitSleep(time_since_last_request) ==
    IF time_since_last_request < min_request_interval
    THEN min_request_interval - time_since_last_request
    ELSE 0

\* _rate_limit(), then session.request() starts with a fresh Retry counter
RateLimit ==
    /\ rpc = "rate_limit"
    /\ Sleep(RateLimitSleep(since_request), 0)
    /\ start_gap' = IF wire_sent
                    THEN Sat(since_request + RateLimitSleep(since_request))
                    ELSE -1
    /\ rpc' = "send"
    /\ retry_total' = max_retries
    /\ retry_history' = 0
    /\ UNCHANGED <<service, session_open, wire_sent, wire_gap, caller,
                   params, answers, backoff_slept, resp, exc>>
    /\ UNCHANGED <<serverVars, frameVars, driverVars>>

\* the sleep of Retry.sleep(response) before a re-send: Retry-After when the
\* response carries one (seconds), the backoff otherwise; -1 when the header
\* cannot be parsed (InvalidHeader)
AdapterSleep(ans, n) ==
    IF ans.net = "ok" /\ ans.retry_after # None
    THEN IF ~IsIntLiteral(ans.retry_after.v) THEN -1
         ELSE IF DecimalValue(ans.retry_after.v) > 0
              THEN Seconds(DecimalValue(ans.retry_after.v))
              ELSE BackoffTime(n)
    ELSE BackoffTime(n)

\* the clocks after a request went on the wire and d ticks were slept
SleepAfterSend(d) ==
    /\ now' = Sat(now + d)
    /\ since_wire' = Sat(d)
    /\ since_request' = Sat(since_request + d)

NoSleepAfterSend == SleepAfterSend(0)

\* session.request(...): one request goes on the wire and the server answers;
\* the adapter re-sends, gives up, or hands the response to _make_request
WireSend ==
    /\ rpc = "send"
    /\ \E ans \in SuccessAnswers(caller, served) \cup faults :
        /\ IsFault(ans) => fault_budget > 0
        /\ faults' = faults
        /\ fault_budget' = IF IsFault(ans) THEN fault_budget - 1 ELSE fault_budget
        /\ served' = served + Len(ans.page.results)
        /\ answers' = Append(answers, ans)
        /\ wire_sent' = TRUE
        /\ wire_gap' = IF wire_sent THEN since_wire ELSE -1
        /\ IF AdapterRetries(ans)
           THEN IF IsExhausted(retry_total - 1)
                     \/ AdapterSleep(ans, retry_history + 1) < 0
                THEN \* MaxRetryError / InvalidHeader: a RequestException,
                     \* re-raised by _make_request as HubSpotAPIError
                     /\ rpc' = "raised"
                     /\ exc' = "HubSpotAPIError"
                     /\ NoSleepAfterSend
                     /\ UNCHANGED <<retry_total, retry_history,
                                    backoff_slept, resp>>
                ELSE /\ rpc' = "send"
                     /\ retry_total' = retry_total - 1
                     /\ retry_history' = retry_history + 1
                     /\ SleepAfterSend(AdapterSleep(ans, retry_history + 1))
                     /\ backoff_slept' =
                          Sat(backoff_slept + AdapterSleep(ans, retry_history + 1))
                     /\ UNCHANGED <<resp, exc>>
           ELSE /\ rpc' = "respond"
                /\ resp' = ans
                /\ NoSleepAfterSend
                /\ UNCHANGED <<retry_total, retry_history, backoff_slept, exc>>
    /\ UNCHANGED <<service, session_open, start_gap, caller, params>>
    /\ UNCHANGED <<frameVars, driverVars>>

\* response.headers.get('Retry-After', 1)
RetryAfterArg(r) == IF r.retry_after = None THEN IntV(1) ELSE r.retry_after

\* the exception of the >= 400 branch: response.json() and error_data.get()
ErrorBodyException(body) ==
    CASE body = "not_object" -> "AttributeError"
      [] OTHER               -> "HubSpotAPIError"

\* the status checks of _make_request on the response the session returned
HandleResponse ==
    /\ rpc = "respond"
    /\ CASE resp.status \in {401, 403} ->
              /\ rpc' = "raised"
              /\ exc' = "HubSpotAPIError"
              /\ UNCHANGED <<now, since_request, since_wire, backoff_slept>>
         [] resp.status = 429 ->
              IF PyIntRaises(RetryAfterArg(resp))
              THEN /\ rpc' = "raised"
                   /\ exc' = "ValueError"
                   /\ UNCHANGED <<now, since_request, since_wire,
                                  backoff_slept>>
              ELSE /\ rpc' = "rate_limit"
                   /\ exc' = exc
                   /\ Sleep(Seconds(PyInt(RetryAfterArg(resp))),
                            Sat(since_request
                                + Seconds(PyInt(RetryAfterArg(resp)))))
                   /\ backoff_slept' =
                        Sat(backoff_slept + Seconds(PyInt(RetryAfterArg(resp))))
         [] resp.status >= 400 /\ resp.status \notin {401, 403, 429} ->
              /\ rpc' = "raised"
              /\ exc' = ErrorBodyException(resp.body)
              /\ UNCHANGED <<now, since_request, since_wire, backoff_slept>>
         [] OTHER ->
              /\ rpc' = "returned"
              /\ exc' = exc
              /\ UNCHANGED <<now, since_request, since_wire, backoff_slept>>
    /\ UNCHANGED <<service, session_open, wire_sent, wire_gap, start_gap,
                   caller, params, retry_total, retry_history, answers, resp>>
    /\ UNCHANGED <<serverVars, frameVars, driverVars>>

RequestDone == rpc \in {"returned", "raised"}

(***************************************************************************)
(* transform_deal                                                          *)
(***************************************************************************)
\* properties.get(key, 0) or 0
CountArg(properties, key) ==
    LET value == DictGet(properties, key, IntV(0)) IN
    IF Truthy(value) THEN value ELSE IntV(0)

\* properties = deal.get("properties", {})
PropertiesOf(deal) == DictGet(deal, "properties", EmptyDict)

\* get_numeric(value)
get_numeric(value) ==
    IF value = None \/ value = StrV(<<>>) THEN None
    ELSE IF PyFloatRaises(value) THEN None
         ELSE PyFloat(value)

USD == StrV(<<"U", "S", "D">>)

\* the exception building the row raises, "none" when it returns:
\* properties.get on a null property mapping, int() of a count property
TransformException(deal) ==
    IF PropertiesOf(deal) = None THEN "AttributeError"
    ELSE IF \/ PyIntRaises(CountArg(PropertiesOf(deal),
                                    "num_associated_contacts"))
            \/ PyIntRaises(CountArg(PropertiesOf(deal),
                                    "num_associated_companies"))
         THEN "ValueError"
         ELSE "none"

TransformRaises(deal) == TransformException(deal) # "none"

\* the transformed record
Row(deal, tenant, scan, stamp) ==
    LET properties == PropertiesOf(deal) IN
    [deal_id |-> DictGet(deal, "id", None),
     amount |-> get_numeric(DictGet(properties, "amount", None)),
     currency |-> DictGet(properties, "deal_currency_code", USD),
     num_associated_contacts |->
        PyInt(CountArg(properties, "num_associated_contacts")),
     num_associated_companies |->
        PyInt(CountArg(properties, "num_associated_companies")),
     hs_forecast_amount |->
        get_numeric(DictGet(properties, "hs_forecast_amount", None)),
     hs_forecast_probability |->
        get_numeric(DictGet(properties, "hs_forecast_probability", None)),
     raw_properties |-> properties,
     _tenant_id |-> tenant,
     _scan_id |-> scan,
     _extracted_at |-> stamp]

\* a transformer that reads the clock itself
TransformStampsNow(deal, tenant, scan, stamp) ==
    [Row(deal, tenant, scan, stamp) EXCEPT !._extracted_at = now]

\* a transformer that makes up a scan id for every row
TransformGeneratesScanId(deal, tenant, scan, stamp) ==
    [Row(deal, tenant, scan, stamp) EXCEPT !._scan_id = StrV(<<"scan_", now>>)]

transform_deal(deal, tenant, scan, stamp) == Row(deal, tenant, scan, stamp)

(***************************************************************************)
(* HubSpotAPIService.get_deals                                             *)
(***************************************************************************)
\* the query parameters get_deals builds from (limit, after)
GetDealsParams(limit, after) ==
    [limit |-> IF limit > MaxLimit THEN MaxLimit ELSE limit,
     after |-> IF Truthy(after) THEN after ELSE Absent]

\* "next" in data.get("paging", {})
HasNext(d) == d.next # None

(***************************************************************************)
(* HubSpotAPIService.verify_credentials                                    *)
(***************************************************************************)
\* the query parameters of the probe request
ProbeParams == [limit |-> 1]

\* a probe whose outcome is never looked at
ProbeNeverFails(r) == FALSE

\* the probe fails when its _make_request raises: verify_credentials returns
\* False on HubSpotAPIError, any other exception passes through it
ProbeFails(r) == r = "raised"

(***************************************************************************)
(* extract_deals: the generator and its consumer                           *)
(***************************************************************************)
TenantId == "default"
ScanId == "scan"

\* a loop that looks at the next cursor only
NeverStopsOnEmpty(results) == FALSE

\* `if not results` of the paging loop
StopsOnEmpty(results) == results = <<>>

\* a handler that swallows the error
Swallowed(e) == "none"

\* `except HubSpotAPIError: raise` / `except Exception: raise`
Reraise(e) == e

\* a step that skips a record
NextIdxSkips(i) == i + 2

\* the for loop's step to the next record of the page
NextIdx(i) == i + 1

\* first next(): HubSpotAPIService(access_token), then verify_credentials()
\* issues its probe request
Start ==
    /\ pc = "created"
    /\ pc' = "probe"
    /\ service' = TRUE
    /\ session_open' = TRUE
    /\ since_request' = TimeCap
    /\ CallMakeRequest("probe", ProbeParams)
    /\ UNCHANGED <<now, wire_sent, since_wire, wire_gap, start_gap>>
    /\ UNCHANGED <<tenant_id, scan_id, batch_size, checkpoint_interval, after_cursor, page,
                   total_deals, data, idx, yielded, fetched, page_reqs,
                   extracted_at, checkpoints, err, all_deals>>
    /\ UNCHANGED <<serverVars, driverVars>>

\* verify_credentials() returns; False raises "Invalid HubSpot credentials"
\* before the try block is entered
ProbeDone ==
    /\ pc = "probe"
    /\ RequestDone
    /\ IF ProbeFails(rpc)
       THEN /\ pc' = "failed"
            /\ err' = IF exc = "HubSpotAPIError" THEN "InvalidCredentials"
                      ELSE exc
            /\ UNCHANGED <<extracted_at, after_cursor, page, total_deals>>
       ELSE /\ pc' = "loop"
            /\ extracted_at' = now
            /\ after_cursor' = None
            /\ page' = 1
            /\ total_deals' = 0
            /\ err' = err
    /\ rpc' = "idle"
    /\ UNCHANGED <<caller, params, retry_total, retry_history, answers, backoff_slept,
                   resp, exc>>
    /\ UNCHANGED <<tenant_id, scan_id, batch_size, checkpoint_interval, data, idx, yielded,
                   fetched, page_reqs, checkpoints, all_deals>>
    /\ UNCHANGED <<clientVars, serverVars, driverVars>>

\* top of the while loop: service.get_deals(limit=batch_size, after=after_cursor)
FetchPage ==
    /\ pc = "loop"
    /\ Len(page_reqs) < MaxPages
    /\ pc' = "get_deals"
    /\ page_reqs' = Append(page_reqs, GetDealsParams(batch_size, after_cursor))
    /\ CallMakeRequest("get_deals", Last(page_reqs'))
    /\ UNCHANGED <<tenant_id, scan_id, batch_size, checkpoint_interval, after_cursor, page,
                   total_deals, data, idx, yielded, fetched, extracted_at,
                   checkpoints, err, all_deals>>
    /\ UNCHANGED <<clientVars, serverVars, driverVars>>

\* get_deals returns the page or raises; an empty page leaves the loop
PageDone ==
    /\ pc = "get_deals"
    /\ RequestDone
    /\ IF rpc = "raised"
       THEN /\ pc' = "failed"
            /\ err' = Reraise(exc)
            /\ session_open' = FALSE
            /\ UNCHANGED <<data, idx, fetched>>
       ELSE /\ data' = resp.page
            /\ fetched' = Append(fetched, resp.page)
            /\ idx' = 1
            /\ err' = err
            /\ IF StopsOnEmpty(resp.page.results)
               THEN /\ pc' = "done"
                    /\ session_open' = FALSE
               ELSE /\ pc' = "for"
                    /\ session_open' = session_open
    /\ rpc' = "idle"
    /\ UNCHANGED <<caller, params, retry_total, retry_history, answers, backoff_slept,
                   resp, exc>>
    /\ UNCHANGED <<tenant_id, scan_id, batch_size, checkpoint_interval, after_cursor, page,
                   total_deals, yielded, page_reqs, extracted_at, checkpoints,
                   all_deals>>
    /\ UNCHANGED <<service, now, since_request, wire_sent, since_wire,
                   wire_gap, start_gap>>
    /\ UNCHANGED <<serverVars, driverVars>>

\* a for loop that leaves the page before its last record
LeavesPageEarly(i, results) == i < Len(results)

\* `for deal in results`: there is a record left to iterate over
HasRecord(i, results) == i <= Len(results)

\* the for loop over the page: transform the next record, count it and yield
\* the row; after the last record, the check for more pages
ForLoop ==
    /\ pc = "for"
    /\ IF HasRecord(idx, data.results)
       THEN IF TransformRaises(data.results[idx])
            THEN /\ pc' = "failed"
                 /\ err' = Reraise(TransformException(data.results[idx]))
                 /\ session_open' = FALSE
                 /\ UNCHANGED <<total_deals, yielded, after_cursor, page>>
            ELSE /\ pc' = "suspended"
                 /\ total_deals' = total_deals + 1
                 /\ yielded' = Append(yielded,
                                      transform_deal(data.results[idx],
                                                     tenant_id, scan_id,
                                                     extracted_at))
                 /\ UNCHANGED <<err, session_open, after_cursor, page>>
       ELSE IF ~HasNext(data)
            THEN /\ pc' = "done"
                 /\ session_open' = FALSE
                 /\ UNCHANGED <<total_deals, yielded, err, after_cursor, page>>
            ELSE /\ pc' = "loop"
                 /\ after_cursor' = data.next
                 /\ page' = page + 1
                 /\ UNCHANGED <<total_deals, yielded, err, session_open>>
    /\ UNCHANGED <<tenant_id, scan_id, batch_size, checkpoint_interval, data, idx, fetched,
                   page_reqs, extracted_at, checkpoints, all_deals>>
    /\ UNCHANGED <<service, now, since_request, wire_sent, since_wire,
                   wire_gap, start_gap>>
    /\ UNCHANGED <<requestVars, serverVars, driverVars>>

\* next() on the suspended generator: the checkpoint log, then on to the next
\* record of the page; `total_deals % 0` raises, which ends the stream
Resume ==
    /\ pc = "suspended"
    /\ IF checkpoint_interval = 0
       THEN /\ pc' = "failed"
            /\ err' = Reraise("ZeroDivisionError")
            /\ session_open' = FALSE
            /\ UNCHANGED <<checkpoints, idx>>
       ELSE /\ checkpoints' = IF total_deals % checkpoint_interval = 0
                              THEN Append(checkpoints, total_deals)
                              ELSE checkpoints
            /\ idx' = NextIdx(idx)
            /\ pc' = "for"
            /\ UNCHANGED <<err, session_open>>
    /\ UNCHANGED <<tenant_id, scan_id, batch_size, checkpoint_interval, after_cursor, page,
                   total_deals, data, yielded, fetched, page_reqs,
                   extracted_at, all_deals>>
    /\ UNCHANGED <<service, now, since_request, wire_sent, since_wire,
                   wire_gap, start_gap>>
    /\ UNCHANGED <<requestVars, serverVars, driverVars>>

\* the consumer stops pulling: close() raises GeneratorExit at the yield and
\* the finally clause runs
Close ==
    /\ pc = "suspended"
    /\ pc' = "closed"
    /\ session_open' = FALSE
    /\ UNCHANGED <<tenant_id, scan_id, batch_size, checkpoint_interval, after_cursor, page,
                   total_deals, data, idx, yielded, fetched, page_reqs,
                   extracted_at, checkpoints, err, all_deals>>
    /\ UNCHANGED <<service, now, since_request, wire_sent, since_wire,
                   wire_gap, start_gap>>
    /\ UNCHANGED <<requestVars, serverVars, driverVars>>

(***************************************************************************)
(* HubSpotAPIService.get_all_deals                                         *)
(***************************************************************************)
\* an assignment instead of an extend
ExtendReplaces(list, results) == results

\* all_deals.extend(results)
Extend(list, results) == list \o results

\* top of the while loop: self.get_deals(limit=batch_size, after=after)
AllFetch ==
    /\ pc = "all_loop"
    /\ Len(page_reqs) < MaxPages
    /\ pc' = "all_get_deals"
    /\ page_reqs' = Append(page_reqs, GetDealsParams(batch_size, after_cursor))
    /\ CallMakeRequest("get_deals", Last(page_reqs'))
    /\ UNCHANGED <<tenant_id, scan_id, batch_size, checkpoint_interval, after_cursor, page,
                   total_deals, data, idx, yielded, fetched, extracted_at,
                   checkpoints, err, all_deals>>
    /\ UNCHANGED <<clientVars, serverVars, driverVars>>

\* the page is appended; the loop ends when paging has no "next"
AllPageDone ==
    /\ pc = "all_get_deals"
    /\ RequestDone
    /\ IF rpc = "raised"
       THEN /\ pc' = "all_failed"
            /\ err' = exc
            /\ UNCHANGED <<data, fetched, all_deals, after_cursor, page>>
       ELSE /\ data' = resp.page
            /\ fetched' = Append(fetched, resp.page)
            /\ all_deals' = Extend(all_deals, resp.page.results)
            /\ err' = err
            /\ IF ~HasNext(resp.page)
               THEN /\ pc' = "all_done"
                    /\ UNCHANGED <<after_cursor, page>>
               ELSE /\ pc' = "all_loop"
                    /\ after_cursor' = resp.page.next
                    /\ page' = page + 1
    /\ rpc' = "idle"
    /\ UNCHANGED <<caller, params, retry_total, retry_history, answers, backoff_slept,
                   resp, exc>>
    /\ UNCHANGED <<tenant_id, scan_id, batch_size, checkpoint_interval, total_deals, idx, yielded,
                   page_reqs, extracted_at, checkpoints>>
    /\ UNCHANGED <<clientVars, serverVars, driverVars>>

(***************************************************************************)
(* A caller issuing _make_request directly (get_deal_properties, ...)      *)
(***************************************************************************)
DriverCall ==
    /\ pc = "driver"
    /\ rpc = "idle" \/ RequestDone
    /\ calls < MaxCalls
    /\ calls' = calls + 1
    /\ idle' = 0
    /\ CallMakeRequest("direct", Absent)
    /\ UNCHANGED <<destination, loaded, runs, pipelineVars>>
    /\ UNCHANGED <<clientVars, serverVars, frameVars>>

\* wall-clock time passes while the client is idle: between two calls of the
\* driver, or while the consumer holds the row it pulled
Tick ==
    /\ pc \in {"driver", "suspended"}
    /\ rpc = "idle" \/ RequestDone
    /\ idle < MaxIdle
    /\ idle' = idle + 1
    /\ now' = Sat(now + 1)
    /\ since_request' = Sat(since_request + 1)
    /\ since_wire' = Sat(since_wire + 1)
    /\ UNCHANGED <<service, session_open, wire_sent, wire_gap, start_gap,
                   calls, destination, loaded, runs, pipelineVars>>
    /\ UNCHANGED <<requestVars, serverVars, frameVars>>

(***************************************************************************)
(* Specifications                                                          *)
(***************************************************************************)
\* the settings of a configured environment
Token == StrV(<<"t">>)
DatabaseUrl == StrV(<<"u">>)

\* what pipeline.run(source) gave back: nothing yet, an exception, or a
\* LoadInfo with its has_failed_jobs flag
LoadInfo(state, failed) == [state |-> state, has_failed_jobs |-> failed]

NoLoadInfo == LoadInfo("none", FALSE)

BatchSizes == {150}
CheckpointIntervals == {2}

\* a fresh client, no request made, nothing loaded
InitClient ==
    /\ now = 0
    /\ since_request = TimeCap
    /\ wire_sent = FALSE
    /\ since_wire = 0
    /\ wire_gap = -1
    /\ start_gap = -1
    /\ rpc = "idle"
    /\ caller = "none"
    /\ params = Absent
    /\ retry_total = max_retries
    /\ retry_history = 0
    /\ answers = <<>>
    /\ backoff_slept = 0
    /\ resp = NoAnswer
    /\ exc = "none"
    /\ served = 0
    /\ calls = 0
    /\ idle = 0
    /\ destination = <<>>
    /\ loaded = <<>>
    /\ runs = 0

\* the same in a configured environment, outside run_pipeline
InitCommon ==
    /\ InitClient
    /\ access_token = Token
    /\ database_url = DatabaseUrl
    /\ load_info = NoLoadInfo
    /\ result = "none"

\* the frame of a pagination run before its body has run
InitFrameWith(sizes, intervals) ==
    /\ tenant_id = TenantId
    /\ batch_size \in sizes
    /\ checkpoint_interval \in intervals
    /\ after_cursor = None
    /\ page = 1
    /\ total_deals = 0
    /\ data = NoPage
    /\ idx = 1
    /\ yielded = <<>>
    /\ fetched = <<>>
    /\ page_reqs = <<>>
    /\ extracted_at = 0
    /\ checkpoints = <<>>
    /\ err = "none"
    /\ all_deals = <<>>

InitFrame == InitFrameWith(BatchSizes, CheckpointIntervals)

\* extract_deals(...) was called: the generator exists, its body has not run
Init ==
    /\ InitCommon
    /\ InitFrame
    /\ scan_id = ScanId
    /\ pc = "created"
    /\ service = FALSE
    /\ session_open = FALSE
    /\ faults = RunFaultAnswers
    /\ fault_budget = MaxRunFaults

RequestNext == RateLimit \/ WireSend \/ HandleResponse

Next ==
    \/ RequestNext
    \/ Start \/ ProbeDone \/ FetchPage \/ PageDone \/ ForLoop \/ Resume
    \/ Close

Spec == Init /\ [][Next]_vars

\* get_all_deals() is called on a fresh service
InitGetAll ==
    /\ InitCommon
    /\ InitFrame
    /\ scan_id = ScanId
    /\ pc = "all_loop"
    /\ service = TRUE
    /\ session_open = TRUE
    /\ faults = RunFaultAnswers
    /\ fault_budget = MaxRunFaults

NextGetAll == RequestNext \/ AllFetch \/ AllPageDone

SpecGetAll == InitGetAll /\ [][NextGetAll]_vars

\* either pagination loop: extract_deals or get_all_deals
InitPaging == Init \/ InitGetAll

NextPaging == Next \/ AllFetch \/ AllPageDone

SpecPaging == InitPaging /\ [][NextPaging]_vars

\* _make_request is called directly on a fresh service
InitRequest ==
    /\ InitCommon
    /\ InitFrame
    /\ scan_id = ScanId
    /\ pc = "driver"
    /\ service = TRUE
    /\ session_open = TRUE
    /\ faults = FaultAnswers
    /\ fault_budget = MaxRequestFaults

NextRequest == RequestNext \/ DriverCall \/ Tick

SpecRequest == InitRequest /\ [][NextRequest]_vars

\* hubspot_deals_source: `if not scan_id` generates the scan id from the clock
GeneratedScanId(t) == StrV(<<"scan_", t>>)

SourceScanId(arg, t) == IF Truthy(arg) THEN arg ELSE GeneratedScanId(t)

\* the scan_id argument of hubspot_deals_source
ScanIdArgs == {None, StrV(<<>>), StrV(<<"s", "1">>)}

\* hubspot_deals_source(...) was called: the stream of its extract_deals
InitSource ==
    /\ InitCommon
    /\ InitFrame
    /\ \E arg \in ScanIdArgs : scan_id = SourceScanId(arg, now)
    /\ pc = "created"
    /\ service = FALSE
    /\ session_open = FALSE
    /\ faults = RunFaultAnswers
    /\ fault_budget = MaxRunFaults

SpecSource == InitSource /\ [][Next]_vars

\* batch_size is an int of the caller's choice: below, at and above the
\* ceiling, zero and negative
PageSizes == {-1, 0, 1, MaxLimit, MaxLimit + 1}

\* extract_deals(..., batch_size = n) for any integer n
InitAnySize ==
    /\ InitCommon
    /\ InitFrameWith(PageSizes, CheckpointIntervals)
    /\ scan_id = ScanId
    /\ pc = "created"
    /\ service = FALSE
    /\ session_open = FALSE
    /\ faults = RunFaultAnswers
    /\ fault_budget = MaxRunFaults

SpecAnySize == InitAnySize /\ [][Next]_vars

\* the first next() on the stream, up to the outcome of the credential
\* probe, against a server that may fail in any way
InitProbe ==
    /\ InitCommon
    /\ InitFrame
    /\ scan_id = ScanId
    /\ pc = "created"
    /\ service = FALSE
    /\ session_open = FALSE
    /\ faults = FaultAnswers
    /\ fault_budget = MaxRequestFaults

NextProbe == RequestNext \/ Start \/ ProbeDone

SpecProbe == InitProbe /\ [][NextProbe]_vars

\* checkpoint_interval is an int of the caller's choice
AnyCheckpointIntervals == {0, 1, 2, 3}

\* extract_deals(..., checkpoint_interval = n)
InitAnyInterval ==
    /\ InitCommon
    /\ InitFrameWith(BatchSizes, AnyCheckpointIntervals)
    /\ scan_id = ScanId
    /\ pc = "created"
    /\ service = FALSE
    /\ session_open = FALSE
    /\ faults = RunFaultAnswers
    /\ fault_budget = MaxRunFaults

SpecAnyInterval == InitAnyInterval /\ [][Next]_vars

\* the row loop of extract_deals over a page get_deals has returned: the
\* page holds one raw record of any shape, MaxCopies times at most
RawPages ==
    {[results |-> [i \in 1..n |-> r], next |-> None] :
        r \in RawDeals, n \in 1..MaxCopies}

InitRows ==
    /\ pc = "for"
    /\ tenant_id = TenantId
    /\ scan_id = ScanId
    /\ batch_size \in BatchSizes
    /\ checkpoint_interval \in CheckpointIntervals
    /\ after_cursor = None
    /\ page = 1
    /\ total_deals = 0
    /\ data \in RawPages
    /\ fetched = <<data>>
    /\ page_reqs = <<GetDealsParams(batch_size, after_cursor)>>
    /\ idx = 1
    /\ yielded = <<>>
    /\ extracted_at = 0
    /\ checkpoints = <<>>
    /\ err = "none"
    /\ all_deals = <<>>
    \* the client after the probe and the request for the page
    /\ service = TRUE
    /\ session_open = TRUE
    /\ now = min_request_interval
    /\ since_request = 0
    /\ wire_sent = TRUE
    /\ since_wire = 0
    /\ wire_gap = min_request_interval
    /\ start_gap = min_request_interval
    /\ rpc = "idle"
    /\ caller = "get_deals"
    /\ params = Last(page_reqs)
    /\ retry_total = max_retries
    /\ retry_history = 0
    /\ answers = <<Answer("ok", 200, None, "json", data)>>
    /\ backoff_slept = 0
    /\ resp = Last(answers)
    /\ exc = "none"
    /\ faults = RunFaultAnswers
    /\ fault_budget = 0
    /\ served = Len(data.results)
    /\ calls = 0
    /\ idle = 0
    /\ destination = <<>>
    /\ loaded = <<>>
    /\ runs = 0
    /\ access_token = Token
    /\ database_url = DatabaseUrl
    /\ load_info = NoLoadInfo
    /\ result = "none"

NextRows == ForLoop \/ Resume \/ Close \/ Tick

SpecRows == InitRows /\ [][NextRows]_vars

(***************************************************************************)
(* run_pipeline: the deals resource loaded into the destination            *)
(***************************************************************************)
\* a resource that adds every row it is given
AppendDisposition == "append"

\* @dlt.resource(write_disposition="merge", primary_key="deal_id")
write_disposition == "merge"

primary_key == "deal_id"

\* the sink's write of one row: under "merge" the row replaces the rows of
\* the same key as a whole, otherwise it is added
UpsertRow(table, row) ==
    IF write_disposition = "merge"
    THEN SelectSeq(table, LAMBDA r : r[primary_key] # row[primary_key])
         \o <<row>>
    ELSE table \o <<row>>

RECURSIVE UpsertAll(_, _)
UpsertAll(table, rows) ==
    IF rows = <<>> THEN table
    ELSE UpsertAll(UpsertRow(table, Head(rows)), Tail(rows))

\* the deals a run may extract: two ids, each with one of two amounts
LoadIds == {StrV(<<"4", "2">>), StrV(<<"4", "3">>)}

LoadAmounts == {StrV(<<"1">>), StrV(<<"2", ".", "5">>)}

LoadDeals ==
    {RawDeal(id, Absent, Absent, Absent, m, Absent, Absent) :
        id \in LoadIds, m \in LoadAmounts}

\* the row sequences one stream may yield in run number n
Batches(n) ==
    UNION {[1..len ->
              {transform_deal(d, tenant_id, GeneratedScanId(n), n) :
                  d \in LoadDeals}] : len \in 0..MaxBatchLen}

\* run_pipeline(): pipeline.run(source) extracts the rows of one stream and
\* loads them into the destination
Load ==
    /\ pc = "pipeline"
    /\ runs < MaxRuns
    /\ runs' = runs + 1
    /\ \E batch \in Batches(runs + 1) :
        /\ destination' = UpsertAll(destination, batch)
        /\ loaded' = loaded \o batch
    /\ UNCHANGED <<calls, idle, pipelineVars>>
    /\ UNCHANGED <<clientVars, requestVars, serverVars, frameVars>>

InitLoad ==
    /\ InitCommon
    /\ InitFrame
    /\ scan_id = ScanId
    /\ pc = "pipeline"
    /\ service = FALSE
    /\ session_open = FALSE
    /\ faults = RunFaultAnswers
    /\ fault_budget = 0

NextLoad == Load

SpecLoad == InitLoad /\ [][NextLoad]_vars

\* os.getenv: the variable is unset, empty or set
EnvValues == {None, StrV(<<>>), Token}

\* run_pipeline's defaults
PipelineTenantId == "test_account"
PipelineBatchSize == 100

\* `if not access_token` / `if not database_url`
ConfigMissing == ~Truthy(access_token) \/ ~Truthy(database_url)

\* the value run_pipeline returns once pipeline.run has returned: failed jobs
\* are logged, then True is returned
ReturnValue(info) == "True"

\* run_pipeline up to pipeline.run: the configuration checks, then the source
\* and its deals resource are created (the generator body has not run)
RunPipeline ==
    /\ pc = "main"
    /\ IF ConfigMissing
       THEN /\ pc' = "returned"
            /\ result' = "False"
            /\ UNCHANGED <<tenant_id, scan_id, batch_size>>
       ELSE /\ pc' = "created"
            /\ result' = result
            /\ tenant_id' = PipelineTenantId
            /\ batch_size' = PipelineBatchSize
            /\ scan_id' = SourceScanId(None, now)
    /\ UNCHANGED <<checkpoint_interval, after_cursor, page, total_deals, data,
                   idx, yielded, fetched, page_reqs, extracted_at,
                   checkpoints, err, all_deals>>
    /\ UNCHANGED <<calls, idle, destination, loaded, runs, access_token,
                   database_url, load_info>>
    /\ UNCHANGED <<clientVars, requestVars, serverVars>>

\* what pipeline.run gives back when the extraction went through: the load
\* raises, or returns its LoadInfo with or without failed jobs
LoadOutcomes ==
    {LoadInfo("raised", FALSE)} \cup {LoadInfo("returned", f) : f \in BOOLEAN}

\* pipeline.run(source) has drawn the stream to its end: an extraction error
\* comes out of pipeline.run as an exception, otherwise the rows are loaded;
\* then the rest of run_pipeline
PipelineRunDone ==
    /\ pc \in {"done", "failed"}
    /\ pc' = "returned"
    /\ runs' = runs + 1
    /\ IF pc = "failed"
       THEN /\ load_info' = LoadInfo("raised", FALSE)
            /\ result' = "False"
            /\ UNCHANGED <<destination, loaded>>
       ELSE \E info \in LoadOutcomes :
            /\ load_info' = info
            /\ result' = IF info.state = "raised" THEN "False"
                         ELSE ReturnValue(info)
            /\ IF info.state = "raised" \/ info.has_failed_jobs
               THEN UNCHANGED <<destination, loaded>>
               ELSE /\ destination' = UpsertAll(destination, yielded)
                    /\ loaded' = loaded \o yielded
    /\ UNCHANGED <<calls, idle, access_token, database_url>>
    /\ UNCHANGED <<tenant_id, scan_id, batch_size, checkpoint_interval,
                   after_cursor, page, total_deals, data, idx, yielded,
                   fetched, page_reqs, extracted_at, checkpoints, err,
                   all_deals>>
    /\ UNCHANGED <<clientVars, requestVars, serverVars>>

\* run_pipeline() is called in an environment of any configuration; the
\* consumer of the stream is pipeline.run, which pulls it to its end
InitPipeline ==
    /\ InitClient
    /\ InitFrame
    /\ scan_id = ScanId
    /\ pc = "main"
    /\ service = FALSE
    /\ session_open = FALSE
    /\ faults = RunFaultAnswers
    /\ fault_budget = MaxRunFaults
    /\ access_token \in EnvValues
    /\ database_url \in EnvValues
    /\ load_info = NoLoadInfo
    /\ result = "none"

NextPipeline ==
    \/ RunPipeline
    \/ RequestNext
    \/ Start \/ ProbeDone \/ FetchPage \/ PageDone \/ ForLoop \/ Resume
    \/ PipelineRunDone

SpecPipeline == InitPipeline /\ [][NextPipeline]_vars

(***************************************************************************)
(* Properties                                                              *)
(***************************************************************************)
\* the raw records of a sequence of pages, in page order
RECURSIVE Flat(_)
Flat(pages) ==
    IF pages = <<>> THEN <<>>
    ELSE Flat(SubSeq(pages, 1, Len(pages) - 1)) \o Last(pages).results

StreamEnded == pc \in {"done", "failed", "closed"}

\* C1: whenever an extract_deals stream that has created its API client has
\* stopped (pages exhausted, generator closed by the consumer, an error in a
\* page fetch or a transform, or the credential probe failing), the client's
\* session has been closed.
C1_SessionClosedOnEveryExit == (service /\ StreamEnded) => ~session_open

\* a 429 answer whose Retry-After header is absent or a number of seconds
Is429(ans) ==
    /\ ans.net = "ok"
    /\ ans.status = 429
    /\ ans.retry_after # None => IsIntLiteral(ans.retry_after.v)

IsSuccess(ans) == ans.net = "ok" /\ ans.status < 400

\* C2: a request whose answers were 429 n >= 1 times is never given up: it
\* ends only by returning the successful response that follows the 429s, for
\* every n (also beyond max_retries), and no HubSpotAPIError is raised because
\* of 429 answers.
C2_RateLimitRetriesUnbounded ==
    (/\ RequestDone
     /\ Len(answers) >= 1
     /\ \A i \in 1..(Len(answers) - 1) : Is429(answers[i])
     /\ Is429(Last(answers)) \/ IsSuccess(Last(answers)))
    => (rpc = "returned" /\ IsSuccess(Last(answers)))

\* the wait the specification mandates after a 429: Retry-After seconds, one
\* second when the header is absent
MandatedWait(ans) ==
    IF ans.retry_after = None THEN Seconds(1)
    ELSE Seconds(DecimalValue(ans.retry_after.v))

\* C3: when the server answers 429 (Retry-After: s) exactly once and then
\* succeeds, the request returns the successful response after exactly 2 HTTP
\* calls, the second at least s seconds after the first (1 second when the
\* header is absent).
C3_WaitsRetryAfterOnce ==
    (/\ Len(answers) = 2
     /\ Is429(answers[1])
     /\ IsSuccess(answers[2])
     /\ RequestDone)
    => (rpc = "returned" /\ wire_gap >= MandatedWait(answers[1]))

\* a transient failure: a 5xx status, a timeout or a connection error
IsTransient(ans) == ans.net # "ok" \/ ans.status >= 500

\* a transient failure the retry policy covers: a status of the force list
\* other than 429, a timeout or a connection error
IsRetriedTransient(ans) ==
    ans.net # "ok" \/ (ans.status >= 500 /\ ans.status \in status_forcelist)

\* C4 as claimed: when every attempt meets a transient failure, the request is
\* sent at most 3 times and then fails with HubSpotAPIError.
C4_AtMostThreeAttempts ==
    (\A i \in 1..Len(answers) : IsTransient(answers[i]))
    => /\ Len(answers) <= 3
       /\ rpc = "raised" => exc = "HubSpotAPIError"

\* C4 as amended: when every attempt meets a transient failure the retry
\* policy covers (500/502/503/504, timeout, connection error), the request is
\* sent exactly 4 times (the first attempt and max_retries = 3 retries): each
\* of the first three failures is followed by a re-send, the fourth by
\* HubSpotAPIError, and there is no fifth attempt.
C4_FourAttemptsThenError ==
    (/\ Len(answers) >= 1
     /\ \A i \in 1..Len(answers) : IsRetriedTransient(answers[i]))
    => /\ Len(answers) <= 4
       /\ Len(answers) < 4 => rpc = "send"
       /\ Len(answers) = 4 => (rpc = "raised" /\ exc = "HubSpotAPIError")

C4_Witness ==
    /\ rpc = "raised"
    /\ exc = "HubSpotAPIError"
    /\ Len(answers) = 4
    /\ \A i \in 1..4 : IsRetriedTransient(answers[i])
    /\ \E i \in 1..4 : answers[i].net = "timeout"
    /\ \E i \in 1..4 : answers[i].status = 500

IsAuthFailure(ans) == ans.net = "ok" /\ ans.status \in {401, 403}

\* C5: a request answered with 401 or 403 is not sent again (the state after
\* the answer is the status check or the raised HubSpotAPIError, never another
\* send); when it is the first answer, the call fails with HubSpotAPIError
\* after exactly one HTTP call and without any backoff sleep.
C5_AuthFailureNotRetried ==
    (Len(answers) >= 1 /\ IsAuthFailure(Last(answers)))
    => /\ rpc \in {"respond", "raised"}
       /\ rpc = "raised" => exc = "HubSpotAPIError"
       /\ IsAuthFailure(answers[1]) => (Len(answers) = 1 /\ backoff_slept = 0)

C5_Witness ==
    /\ rpc = "raised"
    /\ exc = "HubSpotAPIError"
    /\ Len(answers) = 1
    /\ answers[1].status = 403
    /\ backoff_slept = 0

\* C6: every call of _make_request either returns a response with a status
\* below 400 or raises HubSpotAPIError; no other exception escapes, whatever
\* the status, the headers and the body of the response.
C6_OnlyTypedErrors ==
    /\ rpc = "raised" => exc = "HubSpotAPIError"
    /\ rpc = "returned" => resp.status < 400

\* a response that signals exhaustion: zero records, or no next cursor
TerminalPage(p) == p.results = <<>> \/ ~HasNext(p)

AfterTerminal == fetched # <<>> /\ TerminalPage(Last(fetched))

\* C7: in extract_deals, once a page response had no next cursor or zero
\* records (whichever comes first), no further page request is issued and the
\* stream ends normally: an empty page ends it at once, a last page when its
\* rows are out. Before such a response, a non-empty page with a next cursor
\* whose rows were all pulled is followed by the request for the next page.
C7_StopsAtFirstExhaustionSignal ==
    [][/\ AfterTerminal => page_reqs' = page_reqs
       /\ AfterTerminal' =>
            /\ pc' \in {"for", "suspended", "done", "closed"}
            /\ err' = "none"
            /\ Last(fetched').results = <<>> => pc' = "done"
       /\ (AfterTerminal /\ pc = "for" /\ idx > Len(data.results)) =>
            pc' = "done"
       /\ (~AfterTerminal /\ pc = "for" /\ idx > Len(data.results)) =>
            (pc' = "loop" /\ after_cursor' = data.next)
       /\ (pc = "loop" /\ fetched # <<>>) =>
            (pc' = "get_deals" /\ Len(page_reqs') = Len(page_reqs) + 1)
      ]_vars

\* an empty page that still carried a next cursor ended the stream
C7_Witness ==
    /\ pc = "done"
    /\ err = "none"
    /\ Len(fetched) = 2
    /\ fetched[1].results # <<>>
    /\ fetched[2].results = <<>>
    /\ HasNext(fetched[2])
    /\ Len(page_reqs) = 2

\* the API served k non-empty pages and only the k-th had no next cursor
ServesKPages(pages) ==
    /\ pages # <<>>
    /\ \A i \in 1..Len(pages) :
        /\ pages[i].results # <<>>
        /\ HasNext(pages[i]) <=> i < Len(pages)

\* C8: against an API that serves k non-empty pages of n1..nk records, only
\* the k-th without a next cursor, get_all_deals and the paging loop of
\* extract_deals issue exactly k page requests (one per page, none after the
\* k-th) and deliver exactly the n1+...+nk records of these pages, each once
\* and in order.
C8_ExactlyKRequestsAllRecords ==
    /\ Len(page_reqs) \in {Len(fetched), Len(fetched) + 1}
    /\ ServesKPages(fetched) =>
        /\ Len(page_reqs) = Len(fetched)
        /\ pc \notin {"loop", "get_deals", "all_loop", "all_get_deals"}
        /\ pc = "all_done" => all_deals = Flat(fetched)
        /\ pc = "done" =>
            /\ Len(yielded) = Len(Flat(fetched))
            /\ \A i \in 1..Len(yielded) :
                yielded[i].deal_id = Flat(fetched)[i].id

C8_Witness ==
    /\ pc = "all_done"
    /\ ServesKPages(fetched)
    /\ Len(fetched) = 2
    /\ Len(page_reqs) = 2
    /\ Len(all_deals) = Len(Flat(fetched))
    /\ Len(all_deals) >= 4

\* C9: the rows extract_deals has yielded are, in order, the transformed
\* records of the fetched pages taken in page order and in their order within
\* the page; every row of a page is out before the next page is requested, and
\* at the end of the stream no record was left out or yielded twice.
C9_RowsInPageOrder ==
    LET records == Flat(fetched) IN
    /\ Len(yielded) <= Len(records)
    /\ \A i \in 1..Len(yielded) :
        yielded[i] = transform_deal(records[i], tenant_id, scan_id,
                                    extracted_at)
    /\ pc \in {"loop", "get_deals", "done"} =>
        Len(yielded) = Len(records)

C9_Witness ==
    /\ pc = "done"
    /\ Len(fetched) = 2
    /\ Len(fetched[1].results) = 2
    /\ Len(fetched[2].results) = 2
    /\ Len(yielded) = 4
    /\ yielded[3].deal_id = fetched[2].results[1].id

\* C10: the first page request of a run carries no `after` parameter and
\* every later one carries exactly the next-cursor string of the response
\* before it, whatever that string is.
C10_RequestCarriesPreviousCursor ==
    \A i \in 1..Len(page_reqs) :
        page_reqs[i].after = IF i = 1 THEN Absent ELSE fetched[i - 1].next

\* C11: extract_deals issues the credential probe (one request, limit 1)
\* before anything else: nothing is on the wire before it and the first step
\* of the stream sends it. While the probe runs no page was requested and no
\* row yielded; page requests start only after the probe returned. When the
\* probe fails the stream raises an error, having yielded no row and issued no
\* page request, and does nothing afterwards.
C11_ProbeFirstAndFatal ==
    [][/\ pc = "created" =>
            /\ ~wire_sent
            /\ pc' = "probe" /\ caller' = "probe" /\ params' = ProbeParams
       /\ pc = "probe" =>
            /\ page_reqs = <<>> /\ yielded = <<>>
            /\ caller = "probe" /\ params = ProbeParams
            /\ pc' \in {"probe", "loop", "failed"}
            /\ pc' = "loop" => rpc = "returned"
            /\ rpc = "raised" =>
                 /\ pc' = "failed" /\ err' # "none"
                 /\ yielded' = <<>> /\ page_reqs' = <<>>
       /\ page_reqs' # page_reqs => pc = "loop"
       /\ pc # "failed"
      ]_vars

C11_Witness ==
    /\ pc = "failed"
    /\ err = "InvalidCredentials"
    /\ caller = "probe"
    /\ Len(answers) = 1 /\ answers[1].status = 401
    /\ yielded = <<>>
    /\ page_reqs = <<>>

\* C12: when the request for page p fails, the stream raises that very error
\* and stops for good: no row is added, no further request is issued, and the
\* rows the consumer holds are exactly the rows of pages 1..p-1, each once and
\* in order.
C12_PageFailureAbortsStream ==
    [][/\ (pc = "get_deals" /\ rpc = "raised") =>
            /\ pc' = "failed"
            /\ err' = exc /\ err' # "none"
            /\ yielded' = yielded
            /\ page_reqs' = page_reqs
            /\ fetched' = fetched
       /\ (pc' = "failed" /\ Len(fetched') < Len(page_reqs')) =>
            LET records == Flat(fetched') IN
            /\ Len(fetched') = Len(page_reqs') - 1
            /\ Len(yielded') = Len(records)
            /\ \A i \in 1..Len(yielded') :
                 yielded'[i] = transform_deal(records[i], tenant_id',
                                              scan_id', extracted_at')
       /\ pc = "failed" => (yielded' = yielded /\ page_reqs' = page_reqs
                            /\ wire_sent' = wire_sent /\ answers' = answers
                            /\ pc' = "failed")
      ]_vars

\* the request for the second page failed after the two rows of the first
C12_Witness ==
    /\ pc = "failed"
    /\ err = "HubSpotAPIError"
    /\ Len(page_reqs) = 2
    /\ Len(fetched) = 1
    /\ Len(yielded) = 2
    /\ yielded[2].deal_id = fetched[1].results[2].id

\* C13: on one client instance the start of every _make_request call (its
\* rate-limit stamp) is at least min_request_interval (100 ms) after the start
\* of the call before it, however long the client idled before either; and
\* against a server that answers every request at once and successfully, the
\* HTTP requests themselves are at least that far apart, so that N of them
\* take no less than (N-1) * 100 ms.
C13_MinimumIntervalBetweenStarts ==
    /\ start_gap # -1 => start_gap >= min_request_interval
    /\ (fault_budget = MaxRequestFaults /\ wire_gap # -1) =>
         wire_gap >= min_request_interval

\* two calls back to back: the limiter slept the whole interval
C13_Witness ==
    /\ calls = 2
    /\ rpc = "returned"
    /\ fault_budget = MaxRequestFaults
    /\ now = min_request_interval
    /\ start_gap = min_request_interval
    /\ wire_gap = min_request_interval

\* the raw record the i-th yielded row was built from
RawOf(i) == Flat(fetched)[i]

\* the value of a property of a raw record, None when the property (or the
\* whole mapping) is missing
SourceValue(deal, key) ==
    IF PropertiesOf(deal) = None THEN None
    ELSE DictGet(PropertiesOf(deal), key, None)

CountFields == {"num_associated_contacts", "num_associated_companies"}

\* null, empty, or a string that is not an integer literal
IsNoCount(v) == v = None \/ (v.t = "str" /\ ~IsIntLiteral(v.v))

\* C14: transform_deal never raises, whatever the raw record: the row loop
\* never ends in an error, and in every row a count whose source is null,
\* empty, missing or a string that is not an integer literal is 0.
C14_TransformNeverRaises ==
    /\ err = "none"
    /\ \A i \in 1..Len(yielded) : \A key \in CountFields :
         IsNoCount(SourceValue(RawOf(i), key)) => yielded[i][key] = 0

\* C15: the currency of a row is "USD" when the raw record carries no
\* currency code (deal_currency_code missing, or present with a null value)
\* and the source code otherwise; it is never null.
C15_CurrencyDefaultsToUSD ==
    \A i \in 1..Len(yielded) :
        /\ yielded[i].currency # None
        /\ yielded[i].currency =
             IF SourceValue(RawOf(i), "deal_currency_code") = None THEN USD
             ELSE SourceValue(RawOf(i), "deal_currency_code")

NumericFields == {"amount", "hs_forecast_amount", "hs_forecast_probability"}

\* a well-formed numeric string: an optional sign and a decimal numeral
IsNumericString(v) == v.t = "str" /\ IsDecimalLiteral(Unsigned(v.v))

\* C16: in every row a numeric field is null when its source is null, missing
\* or the empty string, the parsed number when the source is a well-formed
\* numeric string, and null for every other string.
C16_NumericOrNull ==
    \A i \in 1..Len(yielded) : \A key \in NumericFields :
        yielded[i][key] =
            IF IsNumericString(SourceValue(RawOf(i), key))
            THEN PyFloat(SourceValue(RawOf(i), key))
            ELSE None

C18_OneScanOneStamp ==
    [][/\ scan_id' = scan_id
       /\ tenant_id' = tenant_id
       /\ pc \notin {"created", "probe"} => extracted_at' = extracted_at
       /\ \A i \in 1..Len(yielded') :
            /\ yielded'[i]._scan_id = scan_id
            /\ yielded'[i]._tenant_id = tenant_id
            /\ yielded'[i]._extracted_at = extracted_at'
      ]_vars

\* rows of two pages of a stream with a generated scan id, the second page
\* fetched after the rate-limit sleep
C18_Witness ==
    /\ scan_id = GeneratedScanId(0)
    /\ Len(fetched) = 2
    /\ Len(yielded) = 3
    /\ now > extracted_at
    /\ yielded[1]._scan_id = yielded[3]._scan_id
    /\ yielded[1]._extracted_at = yielded[3]._extracted_at

\* C19: every row extract_deals yields has a non-null deal_id, whatever the
\* raw record, also when its envelope has no id.
C19_DealIdNeverNull ==
    \A i \in 1..Len(yielded) : yielded[i].deal_id # None

\* the position in `loaded` of the last loaded row with the key of row r
LastLoaded(r) ==
    CHOOSE j \in 1..Len(loaded) :
        /\ loaded[j].deal_id = r.deal_id
        /\ \A k \in (j + 1)..Len(loaded) : loaded[k].deal_id # r.deal_id

\* C20: after any sequence of loads through the deals resource the
\* destination holds exactly one row for every deal_id that was loaded and no
\* other row, and that row is, field for field, the last loaded row with that
\* deal_id.
C20_OneRowPerKeyLastWins ==
    /\ \A i, j \in 1..Len(destination) :
         destination[i].deal_id = destination[j].deal_id => i = j
    /\ {destination[i].deal_id : i \in 1..Len(destination)}
         = {loaded[j].deal_id : j \in 1..Len(loaded)}
    /\ \A i \in 1..Len(destination) :
         destination[i] = loaded[LastLoaded(destination[i])]

\* the second run loaded deal 42 again with another amount
C20_Witness ==
    /\ runs = 2
    /\ Len(loaded) = 3
    /\ loaded[1].deal_id = StrV(<<"4", "2">>)
    /\ loaded[3].deal_id = StrV(<<"4", "2">>)
    /\ loaded[1].amount # loaded[3].amount
    /\ Len(destination) = 2
    /\ \E i \in 1..2 : destination[i] = loaded[3]

\* C21: run_pipeline returns True only when the run succeeded end to end. It
\* returns False when the credential or the destination URL is missing, and
\* then no request was made; it returns False when extraction or loading
\* raised; and it returns False when the load came back with failed jobs.
C21_TrueOnlySuccess ==
    pc = "returned" =>
        /\ ConfigMissing => result = "False" /\ ~wire_sent /\ ~service
        /\ err # "none" \/ load_info.state = "raised" => result = "False"
        /\ load_info.has_failed_jobs => result = "False"
        /\ result = "True" =>
            /\ ~ConfigMissing
            /\ err = "none"
            /\ load_info = LoadInfo("returned", FALSE)

\* C22: every deals-list request get_deals sends carries a limit in 1..100,
\* whatever integer page size the caller passes: a size above 100 is sent as
\* 100, and no request goes out with a limit of 0 or less.
C22_LimitWithinRange ==
    /\ \A i \in 1..Len(page_reqs) :
        /\ page_reqs[i].limit \in 1..MaxLimit
        /\ batch_size > MaxLimit => page_reqs[i].limit = MaxLimit
    /\ caller = "get_deals" /\ rpc \in {"send", "respond"} =>
        params.limit \in 1..MaxLimit

\* the checkpoint counts due after t rows at interval n: n, 2n, ...
CheckpointsDue(t, n) ==
    IF n = 0 THEN <<>> ELSE [k \in 1..(t \div n) |-> k * n]

\* C23: with checkpoint interval N, one checkpoint carrying the count so far
\* is emitted for each multiple of N rows yielded: once the stream has ended
\* with T rows yielded, the checkpoints emitted are exactly N, 2N, ...,
\* floor(T/N)*N; and the step that emits a checkpoint neither changes the
\* rows yielded nor fails the stream.
C23_CheckpointEveryNRows ==
    [][/\ StreamEnded' =>
            checkpoints' = CheckpointsDue(Len(yielded'), checkpoint_interval)
       /\ pc = "suspended" /\ pc' # "closed" =>
            /\ yielded' = yielded
            /\ pc' # "failed"
            /\ err' = err]_vars

\* C24: get_all_deals honours both exhaustion signals: no page request
\* follows a response with zero records (even one with a next cursor) or a
\* response without a next cursor, and it returns right after the first such
\* response; so the pages it returns records of are the pages up to the first
\* exhaustion signal, the ones extract_deals yields rows for.
C24_GetAllStopsAtFirstSignal ==
    /\ \A i \in 2..Len(page_reqs) : ~TerminalPage(fetched[i - 1])
    /\ pc = "all_loop" /\ fetched # <<>> => ~TerminalPage(Last(fetched))
    /\ pc = "all_done" =>
        /\ TerminalPage(Last(fetched))
        /\ all_deals = Flat(fetched)

\* the probe request was rejected with 401 or 403
ProbeRejected ==
    /\ answers # <<>>
    /\ Last(answers).net = "ok"
    /\ Last(answers).status \in {401, 403}

\* C25: extract_deals fails with "Invalid HubSpot credentials" only when the
\* probe was rejected with 401 or 403; when the probe fails for any other
\* reason (5xx after the retries, timeout, connection error, another 4xx) the
\* error of the stream is not the credentials error.
C25_CredentialsErrorOnlyOnAuthFailure ==
    pc = "failed" /\ page_reqs = <<>> =>
        (err = "InvalidCredentials" <=> ProbeRejected)

\* C26: every HTTP request one client instance puts on the wire, the re-sends
\* of the session's retry adapter and the re-issue after a 429 sleep
\* included, goes out at least min_request_interval (100 ms) after the
\* request before it.
C26_EveryWireRequestSpaced ==
    wire_gap # -1 => wire_gap >= min_request_interval

\* the rows of the fetched pages the consumer has not pulled yet
Unpulled == Len(Flat(fetched)) - Len(yielded)

\* C27: extract_deals is demand-driven. A page request is issued only when
\* the consumer has pulled every row of the pages fetched so far; the rows
\* fetched and not yet pulled are never more than the rest of one page; while
\* the consumer holds a row nothing is requested; and once the consumer has
\* stopped pulling, the stream issues no further HTTP request.
C27_DemandDriven ==
    [][/\ page_reqs' # page_reqs =>
            /\ Unpulled = 0
            /\ Len(page_reqs') = Len(fetched) + 1
       /\ Unpulled' <= Len(data'.results) - (idx' - 1)
       /\ Unpulled' <= MaxPageLen
       /\ pc = "suspended" =>
            /\ answers' = answers
            /\ page_reqs' = page_reqs
            /\ fetched' = fetched
       /\ pc = "closed" =>
            /\ pc' = "closed"
            /\ rpc' = rpc
            /\ answers' = answers
            /\ page_reqs' = page_reqs]_vars

\* page 2 was requested when both rows of page 1 were pulled; the consumer
\* stopped at the first of its two rows, with a next cursor at hand
C27_Witness ==
    /\ pc = "closed"
    /\ Len(page_reqs) = 2
    /\ Len(fetched) = 2
    /\ Len(fetched[1].results) = 2
    /\ Len(fetched[2].results) = 2
    /\ HasNext(fetched[2])
    /\ Len(yielded) = 3
    /\ Unpulled = 1

\* C28: the extraction stream is finite: whatever the API answers, a consumer
\* that keeps pulling reaches the end or an error after finitely many page
\* requests, also when the API keeps returning non-empty pages with a next
\* cursor, the same cursor again included. An API that answers equal
\* requests equally never ends a loop that repeats a request, so the paging
\* loop must never stand before a page request equal to the one it made last.
C28_NeverRepeatsRequest ==
    pc = "loop" /\ page_reqs # <<>> =>
        GetDealsParams(batch_size, after_cursor) # Last(page_reqs)

====
